---- MODULE Spec2Model ----
(***************************************************************************)
(* SF2LV2: the LV2 synthesizer runtime (src/src/synth_plugin.c) and the    *)
(* descriptor generator (src/src/main.c), as a state machine.              *)
(*                                                                         *)
(* Numbers.  Port values are C floats.  They are modelled in fixed point:  *)
(* the program port in tenths (ProgScale), the six control ports in units  *)
(* of 1/CtlScale, so that the casts (int)(x + 0.5) and (int)(x * 127.0f)   *)
(* are computed, truncating toward zero as C does.                         *)
(*                                                                         *)
(* The synthesis engine (FluidSynth) is an external collaborator.  It is   *)
(* modelled by what the plugin can observe: the preset query, the last     *)
(* value of each controller, the bank and program selected on channel 0,   *)
(* the master gain, and the frames it renders, each stamped with its       *)
(* position in the render order of the block.  Every engine call a handler *)
(* makes is appended to calls, tagged with the step of run that issued it. *)
(***************************************************************************)
EXTENDS Integers, Sequences, FiniteSets, TLC

VARIABLES
    phase,                \* "none" | "inst" | "active" | "failed" | "fault" | "cleaned"
    sf,                   \* the sound bank: the set of <<bank, prog>> holding a preset
    noname,               \* presets whose name the engine reports as NULL
    gen,                  \* result of the descriptor generator (main.c)
    heap,                 \* live allocations of this instance
    conn,                 \* port indices connected to a host buffer
    programs,             \* Plugin.programs
    program_count,        \* Plugin.program_count
    current_program,      \* Plugin.current_program
    prev,                 \* Plugin.prev_cutoff .. prev_release, by control
    controls_touched,     \* Plugin.controls_touched[6]
    controls_initialized, \* Plugin.controls_initialized
    preset_just_changed,  \* Plugin.preset_just_changed
    port_ctl,             \* host buffers of ports 5..10, by control
    port_program,         \* host buffer of port 4, in tenths
    port_level,           \* host buffer of port 3, in hundredths
    eng,                  \* engine: [cc, bank, prog, gain] of channel 0
    calls,                \* engine calls issued by the most recent handler
    out_l,                \* host left output buffer after the most recent run
    out_r,                \* host right output buffer after the most recent run
    obs,                  \* observations of the most recent run (history)
    streak,               \* by control: consecutive runs the port has held its value
    streak_upd,           \* by control: change-detector updates issued in those runs
    streak_rst,           \* by control: program-change resets issued in those runs
    streak_ev,            \* by control: Control Change events dispatched in those runs
    nruns                 \* run calls so far

vars == <<phase, sf, noname, gen, heap, conn, programs, program_count,
          current_program, prev, controls_touched, controls_initialized,
          preset_just_changed, port_ctl, port_program, port_level,
          eng, calls, out_l, out_r, obs,
          streak, streak_upd, streak_rst, streak_ev, nruns>>

(***************************************************************************)
(* Program constants                                                       *)
(***************************************************************************)
BUFFER_SIZE == 64
CC_CUTOFF == 21
CC_RESONANCE == 22
CC_ATTACK == 23
CC_DECAY == 24
CC_SUSTAIN == 25
CC_RELEASE == 26
LastBank == 128          \* load_soundfont scans bank <= 128
NumProgs == 128          \* and prog < 128
GenBanks == 128          \* main.c scans bank < 128
NumPorts == 11           \* PORT_EVENTS .. PORT_RELEASE
PORT_PROGRAM == 4
CtlMax == 127            \* (int)(x * 127.0f)
PitchCentre == 8192

(***************************************************************************)
(* Bounds of the model                                                     *)
(***************************************************************************)
MaxRuns == 2             \* run calls explored per instance
HoldRuns == 3            \* run calls explored when controls are held
MaxEvents == 2           \* events in one block's sequence
GuardFrames == 2         \* host memory watched behind the sample_count frames
CtlScale == 100          \* control port resolution: 1.0 is CtlScale
ProgScale == 10          \* program port resolution: 1.0 is ProgScale

Controls == 0..5         \* cutoff, resonance, attack, decay, sustain, release

CCOf(c) ==
    CASE c = 0 -> CC_CUTOFF
      [] c = 1 -> CC_RESONANCE
      [] c = 2 -> CC_ATTACK
      [] c = 3 -> CC_DECAY
      [] c = 4 -> CC_SUSTAIN
      [] OTHER -> CC_RELEASE

DedicatedCCs == {CCOf(c) : c \in Controls}

\* C integer conversion of the quotient a / b (b > 0): truncation toward zero.
TruncDiv(a, b) == IF a >= 0 THEN a \div b ELSE -((-a) \div b)

(***************************************************************************)
(* Sound banks                                                             *)
(***************************************************************************)
\* Addresses a sound bank of the model may populate.  <<129, 0>> lies beyond
\* every scan; <<128, 0>> is scanned by the runtime only.
Addresses == {<<0, 3>>, <<1, 5>>, <<1, 2>>, <<128, 0>>, <<129, 0>>}

AllFonts == SUBSET Addresses

RunFonts == {{}, {<<0, 3>>, <<1, 5>>}}

\* fluid_sfont_get_preset(sfont, bank, prog) != NULL
HasPreset(font, bank, prog) == <<bank, prog>> \in font

(***************************************************************************)
(* load_soundfont: the counting loop and the storing loop                  *)
(***************************************************************************)
CountPresets(font, lastBank) ==
    Cardinality({a \in (0..lastBank) \X (0..(NumProgs - 1)) :
                    HasPreset(font, a[1], a[2])})

\* The two nested loops visit the addresses in ascending (bank, prog) order:
\* address number k is <<k \div NumProgs, k % NumProgs>>.  The visit of the
\* range lo..hi is written as the visit of its two halves, one after the
\* other, which keeps the evaluation shallow.
RECURSIVE StoreRange(_, _, _)
StoreRange(font, lo, hi) ==
    IF lo > hi THEN <<>>
    ELSE IF lo = hi
    THEN (IF HasPreset(font, lo \div NumProgs, lo % NumProgs)
             THEN <<[bank |-> lo \div NumProgs, prog |-> lo % NumProgs]>>
             ELSE <<>>)
    ELSE StoreRange(font, lo, (lo + hi) \div 2)
         \o StoreRange(font, (lo + hi) \div 2 + 1, hi)

\* A scan that stops before the extra bank, as "bank < 128" would.
StorePresets_SkipLastBank(font) == StoreRange(font, 0, LastBank * NumProgs - 1)

StorePresets(font) == StoreRange(font, 0, (LastBank + 1) * NumProgs - 1)

(***************************************************************************)
(* main.c: the descriptor generator                                        *)
(***************************************************************************)
\* fluid_preset_get_name(preset) != NULL
HasName(nn, bank, prog) == <<bank, prog>> \notin nn

\* The counting loop of main: bank < 128.
GenCount(font) == CountPresets(font, GenBanks - 1)

\* The scale-point loop of main: the preset written with rdf:value i is the
\* i-th (from 0) element of the result.
RECURSIVE GenRange(_, _, _, _)
GenRange(font, nn, lo, hi) ==
    IF lo > hi THEN <<>>
    ELSE IF lo = hi
    THEN (IF HasPreset(font, lo \div NumProgs, lo % NumProgs)
             /\ HasName(nn, lo \div NumProgs, lo % NumProgs)
             THEN <<[bank |-> lo \div NumProgs, prog |-> lo % NumProgs]>>
             ELSE <<>>)
    ELSE GenRange(font, nn, lo, (lo + hi) \div 2)
         \o GenRange(font, nn, (lo + hi) \div 2 + 1, hi)

GenScalePoints(font, nn) == GenRange(font, nn, 0, GenBanks * NumProgs - 1)

NoDescriptor == [ran |-> FALSE, ok |-> FALSE, total_presets |-> 0, scale |-> <<>>]

\* main(): returns 1 without a descriptor when it counts no preset.
Generate ==
    /\ phase = "none"
    /\ ~gen.ran
    /\ LET total_presets == GenCount(sf)
       IN gen' = IF total_presets = 0
                    THEN [ran |-> TRUE, ok |-> FALSE, total_presets |-> 0,
                          scale |-> <<>>]
                    ELSE [ran |-> TRUE, ok |-> TRUE, total_presets |-> total_presets,
                          scale |-> GenScalePoints(sf, noname)]
    /\ UNCHANGED <<phase, sf, noname, heap, conn, programs, program_count,
                   current_program, prev, controls_touched, controls_initialized,
                   preset_just_changed, port_ctl, port_program, port_level,
                   eng, calls, out_l, out_r, obs, streak, streak_upd, streak_rst, streak_ev, nruns>>

(***************************************************************************)
(* The engine, as the plugin observes it                                   *)
(***************************************************************************)
CCNums == DedicatedCCs \cup {7}

Call(step, fn, a, b, c) == [step |-> step, fn |-> fn, a |-> a, b |-> b, c |-> c]

EngInit == [cc |-> [n \in CCNums |-> 0], bank |-> 0, prog |-> 0, gain |-> 20]

\* The effect of one call on the engine.  fluid_synth_cc rejects a value
\* outside 0..127 and leaves the controller as it was.
ApplyCall(e, k) ==
    CASE k.fn = "cc" ->
            IF k.b \in CCNums /\ k.c \in 0..127
               THEN [e EXCEPT !.cc[k.b] = k.c] ELSE e
      [] k.fn = "bank_select" -> [e EXCEPT !.bank = k.b]
      [] k.fn = "program_change" -> [e EXCEPT !.prog = k.b]
      [] k.fn = "set_gain" -> [e EXCEPT !.gain = k.a]
      [] OTHER -> e

\* An engine that keeps the first value written in a block.
RECURSIVE ApplyCalls_FirstWins(_, _)
ApplyCalls_FirstWins(e, ks) ==
    IF ks = <<>> THEN e ELSE ApplyCall(ApplyCalls_FirstWins(e, Tail(ks)), Head(ks))

RECURSIVE ApplyCalls(_, _)
ApplyCalls(e, ks) ==
    IF ks = <<>> THEN e ELSE ApplyCalls(ApplyCall(e, Head(ks)), Tail(ks))

\* The engine after the calls ks; a program change that the engine reports
\* as failed leaves its program as it was.
EngineAfter(e, ks, ok) ==
    IF ok THEN ApplyCalls(e, ks) ELSE [ApplyCalls(e, ks) EXCEPT !.prog = e.prog]

\* A reset that sends the top of the controller range.
ResetCCs_Max(step) == [i \in 1..6 |-> Call(step, "cc", 0, CCOf(i - 1), CtlMax)]

\* The six fluid_synth_cc(synth, 0, CC_x, 0) calls of instantiate and of
\* handle_program_change.
ResetCCs(step) == [i \in 1..6 |-> Call(step, "cc", 0, CCOf(i - 1), 0)]

(***************************************************************************)
(* Initial states: nothing instantiated, the host's port buffers set       *)
(***************************************************************************)
Resources == {"plugin", "bundle_path", "settings", "synth", "programs",
              "buffer_l", "buffer_r"}

NoObs == [ran |-> FALSE, fault |-> FALSE, changed |-> FALSE, new_program |-> -1,
          in_init |-> FALSE, in_prev |-> [c \in Controls |-> 0],
          pre_program |-> -1, pre_prev |-> [c \in Controls |-> 0],
          events |-> <<>>, pad |-> 0, sample_count |-> 0, chunks |-> <<>>,
          pre_level |-> 0, held |-> FALSE, failed |-> FALSE,
          tests |-> <<>>, subs |-> {}]

\* The host starts with the cutoff fully open and the other controls at zero.
InitCtlPorts == {[c \in Controls |-> IF c = 0 THEN CtlScale ELSE 0]}

InitCommon ==
    /\ phase = "none"
    /\ gen = NoDescriptor
    /\ heap = {}
    /\ conn = {}
    /\ programs = <<>>
    /\ program_count = 0
    /\ current_program = 0
    /\ prev = [c \in Controls |-> 0]
    /\ controls_touched = [c \in Controls |-> FALSE]
    /\ controls_initialized = FALSE
    /\ preset_just_changed = FALSE
    /\ port_ctl \in InitCtlPorts
    /\ port_program = 0
    /\ port_level = CtlScale
    /\ eng = EngInit
    /\ calls = <<>>
    /\ out_l = <<>>
    /\ out_r = <<>>
    /\ obs = NoObs
    /\ streak = [c \in Controls |-> 0]
    /\ streak_upd = [c \in Controls |-> 0]
    /\ streak_rst = [c \in Controls |-> 0]
    /\ streak_ev = [c \in Controls |-> 0]
    /\ nruns = 0

Init ==
    /\ sf \in RunFonts
    /\ noname = {}
    /\ InitCommon

\* Every sound bank over Addresses, with at most one unnamed preset.
InitLoad ==
    /\ sf \in AllFonts
    /\ noname \in {{}} \cup {{a} : a \in sf}
    /\ InitCommon

(***************************************************************************)
(* instantiate, with load_soundfont                                        *)
(***************************************************************************)
\* The step of instantiate that fails, if any.
Faults == {"none", "plugin", "no_map", "settings", "synth", "sfload",
           "get_sfont", "programs", "buffer_l", "buffer_r"}

\* load_soundfont(plugin) < 0, count being the presets it counted.
\* calloc(0, size) may return NULL or a pointer (zeroNull says which); a NULL
\* is taken for an allocation failure.
LoadFails(count, fault, zeroNull) ==
    \/ fault \in {"sfload", "get_sfont", "programs"}
    \/ count = 0 /\ zeroNull

\* The failures of instantiate before and after load_soundfont.
FailsBeforeLoad(fault) == fault \in {"plugin", "no_map", "settings", "synth"}

FailsAfterLoad(fault) == fault \in {"buffer_l", "buffer_r"}

\* What instantiate leaves allocated when it returns NULL: every failure path
\* frees what it names, and the path of the scratch buffers does not name
\* plugin->programs.
LeftAfterFailure(count, fault, zeroNull) ==
    IF FailsBeforeLoad(fault) \/ LoadFails(count, fault, zeroNull)
    THEN {} ELSE {"programs"}

InstantiateFails(count, fault, zeroNull) ==
    \/ FailsBeforeLoad(fault)
    \/ LoadFails(count, fault, zeroNull)
    \/ FailsAfterLoad(fault)

Instantiate ==
    /\ phase = "none"
    /\ gen.ran
    /\ LET count == CountPresets(sf, LastBank)
           table == StorePresets(sf)
       IN \E fault \in Faults, zeroNull \in BOOLEAN :
            IF InstantiateFails(count, fault, zeroNull)
            THEN /\ phase' = "failed"
                 /\ heap' = LeftAfterFailure(count, fault, zeroNull)
                 /\ calls' = IF FailsBeforeLoad(fault) \/ LoadFails(count, fault, zeroNull)
                                THEN <<>> ELSE ResetCCs("instantiate")
                 /\ UNCHANGED <<programs, program_count, current_program, eng>>
            ELSE /\ phase' = "inst"
                 /\ heap' = Resources
                 /\ program_count' = count
                 /\ programs' = table
                 /\ calls' = ResetCCs("instantiate")
                 /\ eng' = ApplyCalls(EngInit, ResetCCs("instantiate"))
                 /\ current_program' = -1
    /\ prev' = [c \in Controls |-> 0]
    /\ controls_touched' = [c \in Controls |-> FALSE]
    /\ controls_initialized' = FALSE
    /\ preset_just_changed' = FALSE
    /\ UNCHANGED <<sf, noname, gen, conn, port_ctl, port_program, port_level,
                   out_l, out_r, obs, streak, streak_upd, streak_rst, streak_ev, nruns>>

(***************************************************************************)
(* connect_port, activate, deactivate, cleanup                             *)
(***************************************************************************)
\* The host connects the ports in index order; the generated descriptor
\* declares ports 0..4 only, so a host may stop there.
ConnectPort ==
    /\ phase = "inst"
    /\ \E port \in 0..(NumPorts - 1) :
         /\ port = Cardinality(conn)
         /\ conn' = conn \cup {port}
    /\ UNCHANGED <<phase, sf, noname, gen, heap, programs, program_count,
                   current_program, prev, controls_touched, controls_initialized,
                   preset_just_changed, port_ctl, port_program, port_level,
                   eng, calls, out_l, out_r, obs, streak, streak_upd, streak_rst, streak_ev, nruns>>

SilenceAll(step) ==
    <<Call(step, "all_notes_off", -1, 0, 0), Call(step, "all_sounds_off", -1, 0, 0)>>

\* An activate that forgets the selected program.
Activate_Forgets ==
    /\ phase = "inst"
    /\ conn \in {0..PORT_PROGRAM, 0..(NumPorts - 1)}
    /\ phase' = "active"
    /\ calls' = SilenceAll("activate")
    /\ obs' = NoObs
    /\ eng' = ApplyCalls(eng, SilenceAll("activate"))
    /\ current_program' = -1
    /\ UNCHANGED <<sf, noname, gen, heap, conn, programs, program_count,
                   prev, controls_touched, controls_initialized,
                   preset_just_changed, port_ctl, port_program, port_level,
                   out_l, out_r, streak, streak_upd, streak_rst, streak_ev, nruns>>

\* The host activates once it has connected the ports of its descriptor: the
\* five that the generated descriptor declares, or all eleven.
Activate ==
    /\ phase = "inst"
    /\ conn \in {0..PORT_PROGRAM, 0..(NumPorts - 1)}
    /\ phase' = "active"
    /\ calls' = SilenceAll("activate")
    /\ obs' = NoObs
    /\ eng' = ApplyCalls(eng, SilenceAll("activate"))
    /\ UNCHANGED <<sf, noname, gen, heap, conn, programs, program_count,
                   current_program, prev, controls_touched, controls_initialized,
                   preset_just_changed, port_ctl, port_program, port_level,
                   out_l, out_r, streak, streak_upd, streak_rst, streak_ev, nruns>>

Deactivate ==
    /\ phase = "active"
    /\ phase' = "inst"
    /\ calls' = SilenceAll("deactivate")
    /\ obs' = NoObs
    /\ eng' = ApplyCalls(eng, SilenceAll("deactivate"))
    /\ UNCHANGED <<sf, noname, gen, heap, conn, programs, program_count,
                   current_program, prev, controls_touched, controls_initialized,
                   preset_just_changed, port_ctl, port_program, port_level,
                   out_l, out_r, streak, streak_upd, streak_rst, streak_ev, nruns>>

\* A cleanup that does not release the preset table.
Freed_NoTable == Resources \ {"programs"}

\* What cleanup releases.
Freed == Resources

Cleanup ==
    /\ phase = "inst"
    /\ phase' = "cleaned"
    /\ heap' = heap \ Freed
    /\ calls' = <<>>
    /\ obs' = NoObs
    /\ UNCHANGED <<sf, noname, gen, conn, programs, program_count,
                   current_program, prev, controls_touched, controls_initialized,
                   preset_just_changed, port_ctl, port_program, port_level,
                   eng, out_l, out_r, streak, streak_upd, streak_rst, streak_ev, nruns>>

(***************************************************************************)
(* run: the parameter cache and change detector                            *)
(***************************************************************************)
\* A mapping that treats the cutoff control like the others.
MapCtl_NotInverted(c, v) == TruncDiv(v * CtlMax, CtlScale)

\* (int)(*port * 127.0f); the cutoff control is inverted first.
MapCtl(c, v) ==
    IF c = 0 THEN TruncDiv((CtlScale - v) * CtlMax, CtlScale)
    ELSE TruncDiv(v * CtlMax, CtlScale)

\* A first-block branch that leaves the cache as instantiate set it.
InitPrev_KeepCache(ci, pjc, pv, ports) == pv

\* "Initialize controls if needed": the cache after the first-block branch.
InitPrev(ci, pjc, pv, ports) == IF ~ci /\ ~pjc THEN ports ELSE pv

\* A first-block branch that does not mark the cache initialized.
InitDone_Unmarked(ci, pjc) == ci

InitDone(ci, pjc) == IF ~ci /\ ~pjc THEN TRUE ELSE ci

\* The controls whose port differs from the cached value.
Moved(pv, ports) == {c \in Controls : ports[c] # pv[c]}

\* A change detector that leaves the cache as it was.
DiffPrev_Stale(ci, pv, ports) == pv

\* prev_x = *x_port in each branch taken.
DiffPrev(ci, pv, ports) ==
    IF ci THEN [c \in Controls |-> IF c \in Moved(pv, ports) THEN ports[c] ELSE pv[c]]
    ELSE pv

DiffTouched(ci, tch, pv, ports) ==
    IF ci THEN [c \in Controls |-> tch[c] \/ c \in Moved(pv, ports)] ELSE tch

\* The fluid_synth_cc calls of "Handle control changes", cutoff first.
RECURSIVE DiffCallsFrom(_, _, _, _)
DiffCallsFrom(c, tch, pv, ports) ==
    IF c > 5 THEN <<>>
    ELSE (IF c \in Moved(pv, ports) /\ tch[c]
             THEN <<Call("param", "cc", 0, CCOf(c), MapCtl(c, ports[c]))>>
             ELSE <<>>) \o DiffCallsFrom(c + 1, tch, pv, ports)

DiffCalls(ci, tch, pv, ports) ==
    IF ci THEN DiffCallsFrom(0, DiffTouched(ci, tch, pv, ports), pv, ports) ELSE <<>>

(***************************************************************************)
(* run: the program change                                                 *)
(***************************************************************************)
\* (int)(*program_port + 0.5)
RoundProgram(pp) == TruncDiv(2 * pp + ProgScale, 2 * ProgScale)

\* A trigger that does not compare with the current program.
ProgramTrigger_Always(new, cur) == new >= 0

\* The trigger of run: new_program != current_program && new_program >= 0.
ProgramTrigger(new, cur) == new # cur /\ new >= 0

\* The guard of handle_program_change.
ValidProgram(program, count) == ~(program < 0 \/ program >= count)

\* A handle_program_change that silences the voices before it tests the index.
ProgramChangeCalls_SilenceAnyway(program, count, table) ==
    SilenceAll("program")
    \o (IF ~ValidProgram(program, count) THEN <<>>
        ELSE <<Call("program", "bank_select", 0, table[program + 1].bank, 0),
               Call("program", "sfont_select", 0, 1, 0),
               Call("program", "program_change", 0, table[program + 1].prog, 0)>>
             \o ResetCCs("program"))

\* A handle_program_change that selects the preset before it silences the
\* voices.
ProgramChangeCalls_SelectFirst(program, count, table) ==
    IF ~ValidProgram(program, count) THEN <<>>
    ELSE <<Call("program", "bank_select", 0, table[program + 1].bank, 0),
           Call("program", "sfont_select", 0, 1, 0),
           Call("program", "program_change", 0, table[program + 1].prog, 0)>>
         \o SilenceAll("program")
         \o ResetCCs("program")

\* A handle_program_change that reads the first entry of the table whatever
\* the index.
ProgramChangeCalls_FirstEntry(program, count, table) ==
    IF ~ValidProgram(program, count) THEN <<>>
    ELSE SilenceAll("program")
         \o <<Call("program", "bank_select", 0, table[1].bank, 0),
              Call("program", "sfont_select", 0, 1, 0),
              Call("program", "program_change", 0, table[1].prog, 0)>>
         \o ResetCCs("program")

\* The engine calls of handle_program_change; none for an invalid index.
\* The sound font id of the one bank loaded is 1.
ProgramChangeCalls(program, count, table) ==
    IF ~ValidProgram(program, count) THEN <<>>
    ELSE SilenceAll("program")
         \o <<Call("program", "bank_select", 0, table[program + 1].bank, 0),
              Call("program", "sfont_select", 0, 1, 0),
              Call("program", "program_change", 0, table[program + 1].prog, 0)>>
         \o ResetCCs("program")

\* A run that does not record the index it has selected.
ProgramAfter_Keep(new, cur) == cur

\* current_program after the program-change block of run.
ProgramAfter(new, cur) == IF ProgramTrigger(new, cur) THEN new ELSE cur

\* A program-change block that puts the reset values in the cache.
PrevAfterProgram_Defaults(new, cur, pv, ports) ==
    IF ProgramTrigger(new, cur)
    THEN [c \in Controls |-> IF c = 0 THEN CtlScale ELSE 0]
    ELSE pv

\* prev_x after the program-change block of run.
PrevAfterProgram(new, cur, pv, ports) ==
    IF ProgramTrigger(new, cur) THEN ports ELSE pv

(***************************************************************************)
(* run: the MIDI dispatcher                                                *)
(***************************************************************************)
\* A combination that drops the low data byte.
BitOr_HighOnly(a, b) == a

RECURSIVE BitOr(_, _)
BitOr(a, b) ==
    IF a = 0 THEN b
    ELSE IF b = 0 THEN a
    ELSE (IF a % 2 = 1 \/ b % 2 = 1 THEN 1 ELSE 0) + 2 * BitOr(a \div 2, b \div 2)

MidiEv(bytes) == [type |-> "midi", bytes |-> bytes]

\* msg[k]: a byte of the record, or whatever lies behind a shorter record.
Byte(ev, k, pad) == IF k + 1 <= Len(ev.bytes) THEN ev.bytes[k + 1] ELSE pad

StatusNibble(b) == (b \div 16) * 16

\* A dispatcher that also acts on Program Change events.
Dispatch_ProgramChange(ev, pad) ==
    IF ev.type # "midi" THEN <<>>
    ELSE LET st == StatusNibble(Byte(ev, 0, pad))
             d1 == Byte(ev, 1, pad)
             d2 == Byte(ev, 2, pad)
         IN CASE st = 144 -> IF d2 > 0
                                THEN <<Call("midi", "noteon", 0, d1, d2)>>
                                ELSE <<Call("midi", "noteoff", 0, d1, 0)>>
              [] st = 128 -> <<Call("midi", "noteoff", 0, d1, 0)>>
              [] st = 176 -> <<Call("midi", "cc", 0, d1, d2)>>
              [] st = 192 -> <<Call("midi", "program_change", 0, d1, 0)>>
              [] st = 224 -> <<Call("midi", "pitch_bend", 0,
                                    BitOr(d2 * 128, d1) - PitchCentre, 0)>>
              [] OTHER -> <<>>

\* A dispatcher that forwards the channel of the status byte.
Dispatch_EventChannel(ev, pad) ==
    IF ev.type # "midi" THEN <<>>
    ELSE LET st == StatusNibble(Byte(ev, 0, pad))
             ch == Byte(ev, 0, pad) % 16
             d1 == Byte(ev, 1, pad)
             d2 == Byte(ev, 2, pad)
         IN CASE st = 144 -> IF d2 > 0
                                THEN <<Call("midi", "noteon", ch, d1, d2)>>
                                ELSE <<Call("midi", "noteoff", ch, d1, 0)>>
              [] st = 128 -> <<Call("midi", "noteoff", ch, d1, 0)>>
              [] st = 176 -> <<Call("midi", "cc", ch, d1, d2)>>
              [] st = 224 -> <<Call("midi", "pitch_bend", ch,
                                    BitOr(d2 * 128, d1) - PitchCentre, 0)>>
              [] OTHER -> <<>>

\* A dispatcher that hands every Note-On to fluid_synth_noteon.
Dispatch_NoteOnAlways(ev, pad) ==
    IF ev.type # "midi" THEN <<>>
    ELSE LET st == StatusNibble(Byte(ev, 0, pad))
             d1 == Byte(ev, 1, pad)
             d2 == Byte(ev, 2, pad)
         IN CASE st = 144 -> <<Call("midi", "noteon", 0, d1, d2)>>
              [] st = 128 -> <<Call("midi", "noteoff", 0, d1, 0)>>
              [] st = 176 -> <<Call("midi", "cc", 0, d1, d2)>>
              [] st = 224 -> <<Call("midi", "pitch_bend", 0,
                                    BitOr(d2 * 128, d1) - PitchCentre, 0)>>
              [] OTHER -> <<>>

Dispatch(ev, pad) ==
    IF ev.type # "midi" THEN <<>>
    ELSE LET st == StatusNibble(Byte(ev, 0, pad))
             d1 == Byte(ev, 1, pad)
             d2 == Byte(ev, 2, pad)
         IN CASE st = 144 -> IF d2 > 0
                                THEN <<Call("midi", "noteon", 0, d1, d2)>>
                                ELSE <<Call("midi", "noteoff", 0, d1, 0)>>
              [] st = 128 -> <<Call("midi", "noteoff", 0, d1, 0)>>
              [] st = 176 -> <<Call("midi", "cc", 0, d1, d2)>>
              [] st = 224 -> <<Call("midi", "pitch_bend", 0,
                                    BitOr(d2 * 128, d1) - PitchCentre, 0)>>
              [] OTHER -> <<>>

\* A dispatcher that walks the sequence from its end.
RECURSIVE MidiCalls_Reversed(_, _)
MidiCalls_Reversed(evs, pad) ==
    IF evs = <<>> THEN <<>>
    ELSE MidiCalls_Reversed(Tail(evs), pad) \o Dispatch(Head(evs), pad)

RECURSIVE MidiCalls(_, _)
MidiCalls(evs, pad) ==
    IF evs = <<>> THEN <<>>
    ELSE Dispatch(Head(evs), pad) \o MidiCalls(Tail(evs), pad)

(***************************************************************************)
(* run: the block renderer                                                 *)
(***************************************************************************)
\* The samples of the k-th frame the engine renders in this block.
LeftOf(k) == 2 * k
RightOf(k) == 2 * k + 1

\* A host buffer of n frames, followed by GuardFrames frames of the host's
\* memory; each cell holds the last value written and the number of writes.
FreshOut(n) == [i \in 0..(n + GuardFrames - 1) |-> [v |-> -1, w |-> 0]]

\* A chunk as large as what remains.
ChunkSize_Whole(remaining) == remaining

\* chunk_size = (remaining > BUFFER_SIZE) ? BUFFER_SIZE : remaining
ChunkSize(remaining) == IF remaining > BUFFER_SIZE THEN BUFFER_SIZE ELSE remaining

\* A copy that always lands at the start of the host buffer.
CopyChunk_AtStart(out, offset, chunk, rendered, right) ==
    [i \in DOMAIN out |->
        IF i >= 0 /\ i < chunk
        THEN [v |-> IF right THEN RightOf(rendered + i) ELSE LeftOf(rendered + i),
              w |-> out[i].w + 1]
        ELSE out[i]]

\* memcpy(out + offset, buffer, chunk * sizeof(float)), the scratch buffer
\* holding frames rendered .. rendered + chunk - 1 in its first chunk cells.
CopyChunk(out, offset, chunk, rendered, right) ==
    [i \in DOMAIN out |->
        IF i >= offset /\ i < offset + chunk
        THEN [v |-> IF right THEN RightOf(rendered + (i - offset))
                             ELSE LeftOf(rendered + (i - offset)),
              w |-> out[i].w + 1]
        ELSE out[i]]

\* offset after one iteration
NextOffset(offset, chunk) == offset + chunk

\* The loop variables at one test of the loop condition.
LoopVars(remaining, offset) == [remaining |-> remaining, offset |-> offset]

\* A loop that renders one chunk and leaves.
RenderLoop_OneChunk(remaining, offset, rendered, ol, or, chunks, tests) ==
    IF remaining > 0
    THEN LET chunk == ChunkSize(remaining)
         IN [out_l |-> CopyChunk(ol, offset, chunk, rendered, FALSE),
             out_r |-> CopyChunk(or, offset, chunk, rendered, TRUE),
             chunks |-> Append(chunks, chunk),
             tests |-> tests \o <<LoopVars(remaining, offset),
                                  LoopVars(remaining - chunk,
                                           NextOffset(offset, chunk))>>]
    ELSE [out_l |-> ol, out_r |-> or, chunks |-> chunks,
          tests |-> Append(tests, LoopVars(remaining, offset))]

\* while (remaining > 0) { ... }; tests collects the loop variables at every
\* test of the condition, the last one included.
RECURSIVE RenderLoop(_, _, _, _, _, _, _)
RenderLoop(remaining, offset, rendered, ol, or, chunks, tests) ==
    IF remaining > 0
    THEN LET chunk == ChunkSize(remaining)
         IN RenderLoop(remaining - chunk, NextOffset(offset, chunk), rendered + chunk,
                       CopyChunk(ol, offset, chunk, rendered, FALSE),
                       CopyChunk(or, offset, chunk, rendered, TRUE),
                       Append(chunks, chunk),
                       Append(tests, LoopVars(remaining, offset)))
    ELSE [out_l |-> ol, out_r |-> or, chunks |-> chunks,
          tests |-> Append(tests, LoopVars(remaining, offset))]

Render(n) == RenderLoop(n, 0, 0, FreshOut(n), FreshOut(n), <<>>, <<>>)

RenderCalls(chunks) ==
    [i \in 1..Len(chunks) |-> Call("render", "write_float", chunks[i], 0, 0)]

(***************************************************************************)
(* run                                                                     *)
(***************************************************************************)
\* A level step that skips a silent level.
LevelCalls_OnlyAudible(lvl) ==
    IF lvl = 0 THEN <<>> ELSE <<Call("level", "set_gain", lvl, 0, 0)>>

\* fluid_synth_set_gain(synth, *level_port), in every block
LevelCalls(lvl) == <<Call("level", "set_gain", lvl, 0, 0)>>

\* A run that handles the program change before the control changes.
RunCalls_ProgramFirst(dcalls, pcalls, lcalls, mcalls, rcalls) ==
    pcalls \o dcalls \o lcalls \o mcalls \o rcalls

\* The engine calls of one run in the order of its steps: control changes,
\* program change, level, MIDI events, audio.
RunCalls(dcalls, pcalls, lcalls, mcalls, rcalls) ==
    dcalls \o pcalls \o lcalls \o mcalls \o rcalls

\* The fluid_synth_cc calls of one step of run for the controller of c.
NumUpdates(ks, step, c) ==
    Cardinality({i \in 1..Len(ks) :
                    ks[i].step = step /\ ks[i].fn = "cc" /\ ks[i].b = CCOf(c)})

\* The host calls run on an activated instance; limit bounds the blocks.
RunEnabled(limit) == phase = "active" /\ nruns < limit

\* One run call: the host has left ports, pp and lvl in the control buffers,
\* evs in the event buffer (pad behind short records) and asks for n frames.
\* For a control port that is not connected, ports holds what the read
\* through the null pointer delivers when it does not fault.
\* ok tells whether the engine accepts a program change it is sent.
RunWith(ports, pp, lvl, evs, pad, n, ok) ==
    /\ port_ctl' = ports
    /\ port_program' = pp
    /\ port_level' = lvl
    /\ nruns' = nruns + 1
    /\ \/ \* a control port left unconnected is a null pointer; reading
          \* through it is undefined, and one outcome is the fault
          /\ ~((0..(NumPorts - 1)) \subseteq conn)
          /\ phase' = "fault"
          /\ obs' = [NoObs EXCEPT !.ran = TRUE, !.fault = TRUE]
          /\ UNCHANGED <<current_program, prev, controls_touched,
                         controls_initialized, preset_just_changed, eng, calls,
                         out_l, out_r, streak, streak_upd, streak_rst, streak_ev>>
       \/ \* the reads deliver ports (any value, for an unconnected port)
          LET prev1 == InitPrev(controls_initialized, preset_just_changed, prev, ports)
                ci1 == InitDone(controls_initialized, preset_just_changed)
                dcalls == DiffCalls(ci1, controls_touched, prev1, ports)
                tch2 == DiffTouched(ci1, controls_touched, prev1, ports)
                prev2 == DiffPrev(ci1, prev1, ports)
                new == RoundProgram(pp)
                trig == ProgramTrigger(new, current_program)
                valid == ValidProgram(new, program_count)
                pcalls == IF trig
                             THEN ProgramChangeCalls(new, program_count, programs)
                             ELSE <<>>
                r == Render(n)
                all == RunCalls(dcalls, pcalls, LevelCalls(lvl), MidiCalls(evs, pad),
                                RenderCalls(r.chunks))
            IN /\ phase' = phase
               /\ controls_initialized' = ci1
               /\ controls_touched' = IF trig /\ valid
                                         THEN [c \in Controls |-> FALSE] ELSE tch2
               /\ preset_just_changed' = (trig /\ valid)
               /\ current_program' = ProgramAfter(new, current_program)
               /\ prev' = PrevAfterProgram(new, current_program, prev2, ports)
               /\ calls' = all
               /\ eng' = EngineAfter(eng, all, ok)
               /\ out_l' = r.out_l
               /\ out_r' = r.out_r
               /\ obs' = [ran |-> TRUE, fault |-> FALSE, changed |-> trig,
                          new_program |-> new,
                          in_init |-> controls_initialized, in_prev |-> prev,
                          pre_program |-> current_program, pre_prev |-> prev2,
                          events |-> evs, pad |-> pad, sample_count |-> n,
                          chunks |-> r.chunks,
                          pre_level |-> port_level,
                          held |-> obs.ran /\ ~obs.fault,
                          failed |-> IF trig /\ valid THEN ~ok ELSE obs.failed,
                          tests |-> r.tests,
                          subs |-> IF trig /\ valid THEN {new} ELSE {}]
               /\ streak' = [c \in Controls |->
                               IF nruns > 0 /\ ports[c] = port_ctl[c]
                               THEN streak[c] + 1 ELSE 1]
               /\ streak_upd' = [c \in Controls |->
                               IF nruns > 0 /\ ports[c] = port_ctl[c]
                               THEN streak_upd[c] + NumUpdates(dcalls, "param", c)
                               ELSE NumUpdates(dcalls, "param", c)]
               /\ streak_rst' = [c \in Controls |->
                               IF nruns > 0 /\ ports[c] = port_ctl[c]
                               THEN streak_rst[c] + NumUpdates(pcalls, "program", c)
                               ELSE NumUpdates(pcalls, "program", c)]
               /\ streak_ev' = [c \in Controls |->
                               IF nruns > 0 /\ ports[c] = port_ctl[c]
                               THEN streak_ev[c] + NumUpdates(all, "midi", c)
                               ELSE NumUpdates(all, "midi", c)]
    /\ UNCHANGED <<sf, noname, gen, heap, conn, programs, program_count>>

\* A run call during which the engine accepts what it is sent.
Run(ports, pp, lvl, evs, pad, n) == RunWith(ports, pp, lvl, evs, pad, n, TRUE)

(***************************************************************************)
(* What the host feeds run                                                 *)
(***************************************************************************)
\* The end stops of a control; both are exact as floats.
CtlVals == {0, CtlScale}

\* Port value -1.6, 0.0, 1.4 and 5.0 (for ProgScale = 10).
ProgVals == {-(ProgScale + ProgScale \div 2 + 1), 0, ProgScale + 4, 5 * ProgScale}

LevelVals == {0, CtlScale, 2 * CtlScale}

\* The control buffers at the next block: the host moves at most one of them
\* between two consecutive blocks.
NextCtl(p) == {p} \cup {[p EXCEPT ![c] = v] : c \in Controls, v \in CtlVals}


\* The same for the cutoff control, which is inverted, and the resonance
\* control, which stands for the five that are mapped directly.
HoldCtl(p) == {p} \cup {[p EXCEPT ![c] = v] : c \in {0, 1}, v \in CtlVals}

EventAlphabet ==
    {MidiEv(<<144, 60, 100>>), MidiEv(<<147, 60, 100>>),
     MidiEv(<<144, 60, 0>>), MidiEv(<<147, 60, 0>>),
     MidiEv(<<128, 60, 64>>), MidiEv(<<131, 60, 0>>),
     MidiEv(<<176, 7, 90>>), MidiEv(<<176, CC_CUTOFF, 64>>),
     MidiEv(<<224, 0, 64>>), MidiEv(<<224, 127, 127>>), MidiEv(<<224, 0, 0>>),
     MidiEv(<<227, 1, 0>>),
     MidiEv(<<192, 5>>), MidiEv(<<144, 60>>), MidiEv(<<144>>),
     [type |-> "other", bytes |-> <<144, 60, 100>>]}

EventSeqs == UNION {[1..k -> EventAlphabet] : k \in 0..MaxEvents}

PadBytes == {0, 200}

SampleCounts == {0, 1, BUFFER_SIZE - 1, BUFFER_SIZE, BUFFER_SIZE + 1,
                 2 * BUFFER_SIZE, 2 * BUFFER_SIZE + 2}

\* Blocks in which the control surface and the program selector move.
RunCtl ==
    /\ RunEnabled(MaxRuns)
    /\ \E ports \in NextCtl(port_ctl), pp \in ProgVals :
         Run(ports, pp, port_level, <<>>, 0, 1)

\* Blocks in which the program selector moves and a Control Change event
\* for the cutoff controller arrives.
RunCtlEvent ==
    /\ RunEnabled(MaxRuns)
    /\ \E pp \in ProgVals :
         Run(port_ctl, pp, port_level, <<MidiEv(<<176, CC_CUTOFF, 64>>)>>, 0, 1)

\* A first block that carries events.
RunMidi ==
    /\ RunEnabled(1)
    /\ \E evs \in EventSeqs, pad \in PadBytes :
         Run(port_ctl, port_program, port_level, evs, pad, 1)

\* Blocks of every length.
RunRender ==
    /\ RunEnabled(MaxRuns)
    /\ \E n \in SampleCounts, lvl \in LevelVals :
        Run(port_ctl, port_program, lvl, <<>>, 0, n)

\* A first block of any length, with the program selector on a valid index,
\* on index 5 or below zero, and with no, one or two events.
RunWhole ==
    /\ RunEnabled(1)
    /\ \E n \in SampleCounts,
          pp \in {0, 5 * ProgScale, -(ProgScale + ProgScale \div 2 + 1)},
          evs \in {<<>>, <<MidiEv(<<144, 60, 100>>)>>,
                   <<MidiEv(<<144, 60, 100>>), MidiEv(<<176, 7, 90>>)>>} :
        Run(port_ctl, pp, port_level, evs, 0, n)

\* Blocks in which a control is moved or held, with or without a program
\* change to index 1, with or without a Control Change event for the
\* resonance controller.
RunHold ==
    /\ RunEnabled(HoldRuns)
    /\ \E ports \in HoldCtl(port_ctl),
          pp \in {-(ProgScale + ProgScale \div 2 + 1), ProgScale + 4},
          evs \in {<<>>, <<MidiEv(<<176, CC_RESONANCE, 64>>)>>} :
         Run(ports, pp, port_level, evs, 0, 1)

\* A block without events after blocks that carried some.
RunQuiet ==
    /\ RunEnabled(MaxRuns)
    /\ nruns >= 1
    /\ Run(port_ctl, port_program, port_level, <<>>, 0, 1)

\* Port value -1.6, -0.6, 0.0, 0.4, 0.5, 1.4 and 5.0 (for ProgScale = 10).
FineProgVals == ProgVals \cup {-(ProgScale \div 2 + 1), ProgScale \div 2 - 1,
                               ProgScale - ProgScale \div 2}

\* Blocks in which the program selector moves and the engine accepts or
\* rejects the program change.
RunProg ==
    /\ RunEnabled(MaxRuns)
    /\ \E pp \in FineProgVals, ok \in BOOLEAN :
         RunWith(port_ctl, pp, port_level, <<>>, 0, 1, ok)

\* Port value 0.0, 0.01, 0.5, 0.99 and 1.0 (for CtlScale = 100).
MapVals == {0, 1, CtlScale \div 2, CtlScale - 1, CtlScale}

\* Blocks in which one control moves to any of these positions.
RunMap ==
    /\ RunEnabled(MaxRuns)
    /\ \E c \in Controls, v \in MapVals :
         Run([port_ctl EXCEPT ![c] = v], port_program, port_level, <<>>, 0, 1)

(***************************************************************************)
(* The plugin.c variant: seven ports, a preset table without a count, and  *)
(* the filter driven through fluid_synth_set_gen                           *)
(***************************************************************************)
\* for (int bank = 0; bank < 128; bank++)
OldBanks == 128

\* PORT_EVENTS .. PORT_RESONANCE
OldPorts == 7

GEN_FILTERFC == 8
GEN_FILTERQ == 9

\* The two loops of plugin.c's load_soundfont.
OldCountPresets(font) ==
    Cardinality({a \in (0..(OldBanks - 1)) \X (0..(NumProgs - 1)) :
                    HasPreset(font, a[1], a[2])})

OldStorePresets(font) == StoreRange(font, 0, OldBanks * NumProgs - 1)

\* What the memory behind the table may hold when it is read as an entry.
OldBeyond == {[bank |-> 0, prog |-> 0], [bank |-> 77, prog |-> 99]}

\* The outcomes of reading programs[i]: the entry when i lies in the table;
\* beyond it the read is undefined, and delivers some entry or faults.
OldEntryReads(table, i) ==
    IF i < Len(table)
    THEN {[fault |-> FALSE, entry |-> table[i + 1]]}
    ELSE {[fault |-> TRUE, entry |-> [bank |-> 0, prog |-> 0]]}
         \cup {[fault |-> FALSE, entry |-> e] : e \in OldBeyond}

\* log2f to eight fractional bits: the integer part, then one bit per
\* squaring of the mantissa (held in units of 1/4096).
RECURSIVE FloorLog2(_)
FloorLog2(x) == IF x < 2 THEN 0 ELSE 1 + FloorLog2(x \div 2)

RECURSIVE Pow2(_)
Pow2(n) == IF n = 0 THEN 1 ELSE 2 * Pow2(n - 1)

RECURSIVE Log2Frac(_, _)
Log2Frac(m, k) ==
    IF k = 0 THEN 0
    ELSE LET sq == (m * m) \div 4096
         IN IF sq >= 8192 THEN Pow2(k - 1) + Log2Frac(sq \div 2, k - 1)
                          ELSE Log2Frac(sq, k - 1)

Log2Q8(x) == 256 * FloorLog2(x) + Log2Frac((4096 * x) \div Pow2(FloorLog2(x)), 8)

\* cents = 1200.0f * log2f(cutoff * 19980.0f + 20.0f), to the cent below
OldCutoffCents(v) == (1200 * Log2Q8((v * 19980) \div CtlScale + 20)) \div 256

\* db * 10.0f with db = resonance * 96.0f - 48.0f, in units of 1/CtlScale
OldResonanceGen(v) == 960 * v - 480 * CtlScale

\* The two filter steps: a generator is written when the port differs from
\* the value last written.
OldFilterCalls(last, ports) ==
    (IF ports[0] # last[0]
        THEN <<Call("filter", "set_gen", GEN_FILTERFC, OldCutoffCents(ports[0]), 0)>>
        ELSE <<>>)
    \o (IF ports[1] # last[1]
           THEN <<Call("filter", "set_gen", GEN_FILTERQ, OldResonanceGen(ports[1]), 0)>>
           ELSE <<>>)

\* bank select and program change with the table entry read
OldProgramCalls(entry) ==
    <<Call("program", "bank_select", 0, entry.bank, 0),
      Call("program", "program_change", 0, entry.prog, 0)>>

\* instantiate of plugin.c: no controller is reset, the table has no count,
\* last_cutoff and last_resonance start at -1.
OldInstantiate ==
    /\ phase = "none"
    /\ LET count == OldCountPresets(sf)
       IN \E fault \in Faults, zeroNull \in BOOLEAN :
            IF fault # "none" \/ (count = 0 /\ zeroNull)
            THEN /\ phase' = "failed"
                 /\ heap' = IF fault \in {"buffer_l", "buffer_r"}
                               THEN {"programs"} ELSE {}
                 /\ UNCHANGED <<programs, current_program, prev>>
            ELSE /\ phase' = "inst"
                 /\ heap' = Resources
                 /\ programs' = OldStorePresets(sf)
                 /\ current_program' = -1
                 /\ prev' = [c \in Controls |-> -CtlScale]
    /\ UNCHANGED <<sf, noname, gen, conn, program_count, controls_touched,
                   controls_initialized, preset_just_changed, port_ctl,
                   port_program, port_level, eng, calls, out_l, out_r, obs,
                   streak, streak_upd, streak_rst, streak_ev, nruns>>

\* connect_port of plugin.c; the host connects the seven ports in order.
OldConnectPort ==
    /\ phase = "inst"
    /\ \E port \in 0..(OldPorts - 1) :
         /\ port = Cardinality(conn)
         /\ conn' = conn \cup {port}
    /\ UNCHANGED <<phase, sf, noname, gen, heap, programs, program_count,
                   current_program, prev, controls_touched, controls_initialized,
                   preset_just_changed, port_ctl, port_program, port_level,
                   eng, calls, out_l, out_r, obs, streak, streak_upd, streak_rst,
                   streak_ev, nruns>>

OldActivate ==
    /\ phase = "inst"
    /\ conn = 0..(OldPorts - 1)
    /\ phase' = "active"
    /\ calls' = SilenceAll("activate")
    /\ obs' = NoObs
    /\ eng' = ApplyCalls(eng, SilenceAll("activate"))
    /\ UNCHANGED <<sf, noname, gen, heap, conn, programs, program_count,
                   current_program, prev, controls_touched, controls_initialized,
                   preset_just_changed, port_ctl, port_program, port_level,
                   out_l, out_r, streak, streak_upd, streak_rst, streak_ev, nruns>>

\* run of plugin.c: program, level, filter, MIDI events, audio.  The program
\* step subscripts the table with every index that is not negative and
\* differs from the current one.
OldRunWith(ports, pp, lvl, evs, pad, n) ==
    /\ port_ctl' = ports
    /\ port_program' = pp
    /\ port_level' = lvl
    /\ nruns' = nruns + 1
    /\ LET new == RoundProgram(pp)
           trig == ProgramTrigger(new, current_program)
       IN \E rd \in (IF trig THEN OldEntryReads(programs, new)
                             ELSE {[fault |-> FALSE, entry |-> [bank |-> 0, prog |-> 0]]}) :
            IF rd.fault
            THEN /\ phase' = "fault"
                 /\ obs' = [NoObs EXCEPT !.ran = TRUE, !.fault = TRUE,
                                         !.changed = TRUE, !.new_program = new,
                                         !.pre_program = current_program,
                                         !.subs = {new}]
                 /\ UNCHANGED <<current_program, prev, eng, calls, out_l, out_r>>
            ELSE LET pcalls == IF trig THEN OldProgramCalls(rd.entry) ELSE <<>>
                     fcalls == OldFilterCalls(prev, ports)
                     r == Render(n)
                     all == pcalls \o LevelCalls(lvl) \o fcalls
                            \o MidiCalls(evs, pad) \o RenderCalls(r.chunks)
                 IN /\ phase' = phase
                    /\ current_program' = IF trig THEN new ELSE current_program
                    /\ prev' = [c \in Controls |->
                                  IF c \in {0, 1} THEN ports[c] ELSE prev[c]]
                    /\ calls' = all
                    /\ eng' = ApplyCalls(eng, all)
                    /\ out_l' = r.out_l
                    /\ out_r' = r.out_r
                    /\ obs' = [NoObs EXCEPT !.ran = TRUE, !.changed = trig,
                                            !.new_program = new,
                                            !.pre_program = current_program,
                                            !.in_prev = prev,
                                            !.events = evs, !.pad = pad,
                                            !.sample_count = n,
                                            !.chunks = r.chunks,
                                            !.tests = r.tests,
                                            !.pre_level = port_level,
                                            !.held = obs.ran /\ ~obs.fault,
                                            !.subs = IF trig THEN {new} ELSE {}]
    /\ UNCHANGED <<sf, noname, gen, heap, conn, programs, program_count,
                   controls_touched, controls_initialized, preset_just_changed,
                   streak, streak_upd, streak_rst, streak_ev>>

\* Blocks in which the program selector and the two filter controls move.
OldRun ==
    /\ RunEnabled(MaxRuns)
    /\ \E ports \in HoldCtl(port_ctl), pp \in FineProgVals,
          evs \in {<<>>, <<MidiEv(<<144, 60, 100>>)>>} :
         OldRunWith(ports, pp, port_level, evs, 0, 1)

(***************************************************************************)
(* Specifications                                                          *)
(***************************************************************************)
\* The control surface and the program selector at work.
Next ==
    \/ Generate
    \/ Instantiate
    \/ ConnectPort
    \/ Activate
    \/ RunCtl
    \/ RunCtlEvent

Spec == Init /\ [][Next]_vars

\* Controls held over consecutive blocks.
NextHold ==
    \/ Generate
    \/ Instantiate
    \/ ConnectPort
    \/ Activate
    \/ RunHold

SpecHold == Init /\ [][NextHold]_vars

\* The program selector at fractional positions, with an engine that may
\* reject a program change.
NextProg ==
    \/ Generate
    \/ Instantiate
    \/ ConnectPort
    \/ Activate
    \/ RunProg

SpecProg == Init /\ [][NextProg]_vars

\* The mapping of the control positions.
NextMap ==
    \/ Generate
    \/ Instantiate
    \/ ConnectPort
    \/ Activate
    \/ RunMap

SpecMap == Init /\ [][NextMap]_vars

\* Whole blocks: selector, events and rendering together.
NextWhole ==
    \/ Generate
    \/ Instantiate
    \/ ConnectPort
    \/ Activate
    \/ RunWhole

SpecWhole == Init /\ [][NextWhole]_vars

\* The plugin.c variant.
NextOld ==
    \/ OldInstantiate
    \/ OldConnectPort
    \/ OldActivate
    \/ OldRun

SpecOld == Init /\ [][NextOld]_vars

\* Event decoding.
NextMidi ==
    \/ Generate
    \/ Instantiate
    \/ ConnectPort
    \/ Activate
    \/ RunMidi
    \/ RunQuiet

SpecMidi == Init /\ [][NextMidi]_vars

\* Rendering, over whole lifecycles of an instance.
NextRender ==
    \/ Generate
    \/ Instantiate
    \/ ConnectPort
    \/ Activate
    \/ Deactivate
    \/ Cleanup
    \/ RunRender

SpecRender == Init /\ [][NextRender]_vars

\* Building and loading, over every sound bank.
NextLoad ==
    \/ Generate
    \/ Instantiate
    \/ Cleanup

SpecLoad == InitLoad /\ [][NextLoad]_vars

(***************************************************************************)
(* Properties                                                              *)
(***************************************************************************)
\* The most recent handler was a run call that returned.
AfterRun == obs.ran /\ ~obs.fault

Instantiated == phase \in {"inst", "active"}

CallsOf(fn) == SelectSeq(calls, LAMBDA k : k.fn = fn)

\* The addresses of a sound bank that load_soundfont is to find.
Scanned(font) == {a \in font : a[1] \in 0..128 /\ a[2] \in 0..127}

\* C1: after any sequence of run calls, current_program is -1 or an index i
\* with 0 <= i < program_count.
C1_ProgramIndexValid ==
    Instantiated =>
        \/ current_program = -1
        \/ current_program >= 0 /\ current_program < program_count

\* C2: a run call whose program port rounds to an index >= program_count
\* leaves current_program and every parameter-cache entry as they were before
\* the program-change step.
C2_InvalidIndexNoOp ==
    (AfterRun /\ obs.new_program >= program_count) =>
        /\ current_program = obs.pre_program
        /\ prev = obs.pre_prev

\* C3: when a run call applies a program change to a valid index i, the bank
\* and the program commanded to the engine are programs[i].bank and
\* programs[i].prog; with the table [{0,3},{1,5}], index 1 commands bank 1,
\* program 5.
C3_SelectsTableEntry ==
    (AfterRun /\ obs.changed /\ obs.new_program \in 0..(program_count - 1)) =>
        LET entry == programs[obs.new_program + 1]
        IN /\ CallsOf("bank_select")
                = <<Call("program", "bank_select", 0, entry.bank, 0)>>
           /\ CallsOf("program_change")
                = <<Call("program", "program_change", 0, entry.prog, 0)>>
           /\ eng.bank = entry.bank
           /\ eng.prog = entry.prog
           /\ (/\ programs = <<[bank |-> 0, prog |-> 3], [bank |-> 1, prog |-> 5]>>
               /\ obs.new_program = 1)
                  => (eng.bank = 1 /\ eng.prog = 5)

C3_Witness ==
    /\ AfterRun
    /\ obs.changed
    /\ programs = <<[bank |-> 0, prog |-> 3], [bank |-> 1, prog |-> 5]>>
    /\ obs.new_program = 1
    /\ eng.bank = 1
    /\ eng.prog = 5

\* C4: after load_soundfont succeeds the preset table holds exactly the
\* <<bank, prog>> with bank in 0..128 and prog in 0..127 at which the engine
\* reports a preset, each once, in strictly increasing lexicographic order,
\* and its length is program_count.
C4_TableIsTheScan ==
    phase = "inst" =>
        /\ Len(programs) = program_count
        /\ {<<programs[i].bank, programs[i].prog>> : i \in 1..Len(programs)}
              = Scanned(sf)
        /\ \A i \in 1..(Len(programs) - 1) :
              \/ programs[i].bank < programs[i + 1].bank
              \/ /\ programs[i].bank = programs[i + 1].bank
                 /\ programs[i].prog < programs[i + 1].prog

C4_Witness ==
    /\ phase = "inst"
    /\ sf = Addresses
    /\ programs = <<[bank |-> 0, prog |-> 3], [bank |-> 1, prog |-> 2],
                    [bank |-> 1, prog |-> 5], [bank |-> 128, prog |-> 0]>>
    /\ program_count = 4

\* C5: for every sound bank with at least one preset the generator and the
\* runtime agree: total_presets = program_count, and descriptor index i
\* denotes the <<bank, prog>> of the runtime's table entry i.
C5_GeneratorAgrees ==
    (phase = "inst" /\ program_count >= 1) =>
        /\ gen.ok
        /\ gen.total_presets = program_count
        /\ gen.scale = programs

\* The post-reset values of the controls: cutoff fully open, the others zero.
ResetValue(c) == IF c = 0 THEN CtlScale ELSE 0

ValidChange == AfterRun /\ obs.changed /\ ValidProgram(obs.new_program, program_count)

\* C6 as stated: after a run call that applied a program change, no control
\* port having moved in that block, every parameter-cache entry holds the
\* post-reset default and the engine's control holds that same default.
C6_CacheHoldsDefaults ==
    (/\ ValidChange
     /\ obs.events = <<>>
     /\ \A c \in Controls : NumUpdates(calls, "param", c) = 0) =>
        \A c \in Controls :
            /\ prev[c] = ResetValue(c)
            /\ eng.cc[CCOf(c)] = MapCtl(c, ResetValue(c))

\* C6 amended: after a run call whose program-change block was entered, every
\* parameter-cache entry holds the current value of its port; when the index
\* was valid the engine's controller holds the mapped reset value, 0, unless
\* a Control Change event of the same block has written that controller.
C6_CacheFollowsPorts ==
    /\ (AfterRun /\ obs.changed) => prev = port_ctl
    /\ ValidChange =>
          \A c \in Controls :
              /\ MapCtl(c, ResetValue(c)) = 0
              /\ NumUpdates(calls, "midi", c) = 0 => eng.cc[CCOf(c)] = 0

C6_Witness ==
    /\ ValidChange
    /\ obs.events = <<>>
    /\ port_ctl[1] = CtlScale
    /\ prev[1] = CtlScale
    /\ NumUpdates(calls, "param", 1) = 1
    /\ eng.cc[CC_RESONANCE] = 0

\* C7 as stated: a control port held at one value across N >= 2 consecutive
\* run calls triggers exactly one engine update call for that control over
\* those calls, whether or not the resets of a program change are counted.
C7_ExactlyOneUpdate ==
    AfterRun =>
        \A c \in Controls :
            streak[c] >= 2 =>
                \/ streak_upd[c] = 1
                \/ streak_upd[c] + streak_rst[c] = 1

\* C7 amended: over the consecutive run calls in which a control port holds
\* one value the change detector issues one engine update for that control
\* if the port moved to the value after the first block, and none if it has
\* held the value since the first block; the update is issued in the first of
\* those calls, never in a later one, and a program change issues none with
\* the port's value.
C7_OneUpdatePerMove ==
    AfterRun =>
        \A c \in Controls :
            /\ streak_upd[c] = (IF streak[c] = nruns THEN 0 ELSE 1)
            /\ streak[c] >= 2 => NumUpdates(calls, "param", c) = 0
            /\ \A i \in 1..Len(calls) :
                  (calls[i].step = "param" /\ calls[i].b = CCOf(c))
                      => calls[i].c = MapCtl(c, port_ctl[c])
            /\ \A i \in 1..Len(calls) :
                  (calls[i].step = "program" /\ calls[i].fn = "cc") => calls[i].c = 0

C7_Witness ==
    /\ AfterRun
    /\ nruns = 3
    /\ streak[0] = 2
    /\ streak_upd[0] = 1
    /\ port_ctl[0] = 0

\* C8: for every sample_count the render loop writes frames
\* 0..sample_count-1 of both host output buffers, each once, frame i holding
\* the i-th frame the engine rendered, and writes no frame at an index
\* >= sample_count.
C8_RenderFillsExactly ==
    AfterRun =>
        /\ \A i \in 0..(obs.sample_count - 1) :
              /\ out_l[i] = [v |-> LeftOf(i), w |-> 1]
              /\ out_r[i] = [v |-> RightOf(i), w |-> 1]
        /\ \A i \in DOMAIN out_l : i >= obs.sample_count => out_l[i].w = 0
        /\ \A i \in DOMAIN out_r : i >= obs.sample_count => out_r[i].w = 0
        /\ \A k \in 1..Len(obs.chunks) : obs.chunks[k] \in 1..BUFFER_SIZE

C8_Witness ==
    /\ AfterRun
    /\ obs.sample_count = 2 * BUFFER_SIZE + 2
    /\ obs.chunks = <<BUFFER_SIZE, BUFFER_SIZE, 2>>
    /\ out_l[BUFFER_SIZE] = [v |-> LeftOf(BUFFER_SIZE), w |-> 1]
    /\ out_r[2 * BUFFER_SIZE + 1] = [v |-> RightOf(2 * BUFFER_SIZE + 1), w |-> 1]

\* A Note-On record whose velocity byte reads 0.
IsNoteOnZero(ev, pad) ==
    /\ ev.type = "midi"
    /\ StatusNibble(Byte(ev, 0, pad)) = 144
    /\ Byte(ev, 2, pad) = 0

\* The events with every velocity-0 Note-On replaced by the Note-Off for the
\* same key.
AsNoteOff(evs, pad) ==
    [i \in 1..Len(evs) |->
        IF IsNoteOnZero(evs[i], pad)
        THEN MidiEv(<<Byte(evs[i], 0, pad) - 16, Byte(evs[i], 1, pad), 0>>)
        ELSE evs[i]]

MidiStep == SelectSeq(calls, LAMBDA k : k.step = "midi")

\* C9: a Note-On event with velocity 0 issues the same engine call, note-off
\* with the same channel argument and key, as the Note-Off event for that
\* key, and issues no note-on call.
C9_NoteOnZeroIsNoteOff ==
    AfterRun =>
        /\ MidiStep = MidiCalls(AsNoteOff(obs.events, obs.pad), obs.pad)
        /\ \A i \in 1..Len(MidiStep) :
              MidiStep[i].fn = "noteon" => MidiStep[i].c > 0
        /\ obs.events = <<MidiEv(<<144, 60, 0>>)>>
              => MidiStep = <<Call("midi", "noteoff", 0, 60, 0)>>
        /\ obs.events = <<MidiEv(<<128, 60, 64>>)>>
              => MidiStep = <<Call("midi", "noteoff", 0, 60, 0)>>

C9_Witness ==
    /\ AfterRun
    /\ obs.events = <<MidiEv(<<147, 60, 0>>)>>
    /\ MidiStep = <<Call("midi", "noteoff", 0, 60, 0)>>

\* C10: when the sound bank has no preset at any scanned address
\* (program_count = 0), instantiate fails and returns no instance.
C10_NoPresetsNoInstance ==
    Scanned(sf) = {} => ~Instantiated

\* C11: on every failure path of instantiate it returns NULL and every
\* resource acquired before the failure has been released.
C11_FailureReleasesAll ==
    phase = "failed" => heap = {}

\* C12: a run call on an instantiated instance never dereferences an
\* unconnected port: with only ports 0..4 connected run completes without a
\* fault.
C12_RunNeverFaults ==
    /\ phase # "fault"
    /\ obs.ran => ~obs.fault

\* An event record that holds every byte its status calls for; records that
\* are not MIDI and statuses the dispatcher ignores call for none.
WellFormed(ev) ==
    \/ ev.type # "midi"
    \/ Len(ev.bytes) >= 3
    \/ /\ Len(ev.bytes) >= 1
       /\ StatusNibble(ev.bytes[1]) \notin {128, 144, 176, 224}

\* C13: an event record shorter than its status requires is recoverable: no
\* byte beyond the record is read, no engine call is built from bytes outside
\* the record, and the block continues with the remaining events and the
\* rendering.
C13_ShortRecordRecoverable ==
    AfterRun =>
        /\ MidiStep = MidiCalls(SelectSeq(obs.events, WellFormed), 0)
        /\ Len(obs.chunks) >= 1

\* C14 as stated: if a control port holds value v during two consecutive run
\* calls, then after the second the last value sent to the engine for that
\* control is the mapped value of v.
C14_EngineMatchesPort ==
    AfterRun =>
        \A c \in Controls :
            streak[c] >= 2 => eng.cc[CCOf(c)] = MapCtl(c, port_ctl[c])

\* C14 amended: if a control port holds value v during two or more
\* consecutive run calls in which no Control Change event for its controller
\* arrives, then after them the last value sent to the engine for that
\* control is the mapped value of v when the port moved to v in the first of
\* those calls and no program change was applied in any of them, and is 0
\* otherwise (from instantiate or from the reset of a program change),
\* whatever v is.
C14_EngineFollowsMoves ==
    AfterRun =>
        \A c \in Controls :
            (streak[c] >= 2 /\ streak_ev[c] = 0) =>
                eng.cc[CCOf(c)] = (IF streak_upd[c] = 1 /\ streak_rst[c] = 0
                                      THEN MapCtl(c, port_ctl[c]) ELSE 0)

C14_Witness ==
    /\ AfterRun
    /\ streak[1] >= 2
    /\ streak_ev[1] = 0
    /\ port_ctl[1] = CtlScale
    /\ streak_upd[1] = 0
    /\ eng.cc[CC_RESONANCE] = 0

StepsOf(ks) == [i \in 1..Len(ks) |-> ks[i].step]

FnsOf(ks) == [i \in 1..Len(ks) |-> ks[i].fn]

\* Every element of ks whose step is first comes before every one whose step
\* is second.
Precedes(ks, first, second) ==
    \A i, j \in 1..Len(ks) :
        (ks[i].step = first /\ ks[j].step = second) => i < j

\* C15 as stated: within every run call the program-change step comes first,
\* then the parameter-cache diffs and their engine updates, then the MIDI
\* event dispatch, then the audio rendering.
C15_ProgramChangeFirst ==
    AfterRun =>
        /\ Precedes(calls, "program", "param")
        /\ Precedes(calls, "param", "midi")
        /\ Precedes(calls, "midi", "render")

\* C15 amended: within every run call the parameter-cache diffs and their
\* engine updates come first, then the program-change step, then the level
\* update, then the MIDI event dispatch, then the audio rendering.
C15_ControlChangesFirst ==
    AfterRun =>
        /\ Precedes(calls, "param", "program")
        /\ Precedes(calls, "program", "level")
        /\ Precedes(calls, "level", "midi")
        /\ Precedes(calls, "midi", "render")
        /\ \A i \in 1..Len(calls) :
              calls[i].step \in {"param", "program", "level", "midi", "render"}

C15_Witness ==
    /\ AfterRun
    /\ \A st \in {"param", "program", "level", "midi", "render"} :
          \E i \in 1..Len(calls) : calls[i].step = st

ProgramStep == SelectSeq(calls, LAMBDA k : k.step = "program")

\* C16: in handle_program_change, for a valid index the commands that
\* silence all voices are issued before the bank select and the program
\* change, and these before the parameter resets.
C16_SilenceBeforeSelect ==
    ValidChange =>
        FnsOf(ProgramStep) = <<"all_notes_off", "all_sounds_off", "bank_select",
                               "sfont_select", "program_change",
                               "cc", "cc", "cc", "cc", "cc", "cc">>

C16_Witness ==
    /\ ValidChange
    /\ Len(ProgramStep) = 11
    /\ ProgramStep[1].fn = "all_notes_off"
    /\ ProgramStep[3] = Call("program", "bank_select", 0, 1, 0)

\* C17: in the first run call after instantiation the parameter-cache step
\* sets each cache entry to the current port value and marks the cache
\* initialized, and issues no engine update call for any of the six controls,
\* whatever the port values are.
C17_FirstBlockSilent ==
    (AfterRun /\ ~obs.in_init) =>
        /\ controls_initialized
        /\ obs.pre_prev = port_ctl
        /\ \A i \in 1..Len(calls) : calls[i].step # "param"

C17_Witness ==
    /\ AfterRun
    /\ ~obs.in_init
    /\ port_ctl[1] = CtlScale
    /\ obs.in_prev[1] = 0
    /\ obs.pre_prev[1] = CtlScale
    /\ controls_initialized

ParamStep == SelectSeq(calls, LAMBDA k : k.step = "param")

\* C18: once the cache is initialized, in a run call where a control's port
\* value differs from its cached value exactly one engine update call is
\* issued for that control, carrying the mapped port value, and the cache
\* entry is set to the port value; where they are equal no update call is
\* issued and the entry is unchanged.
C18_UpdateOnDifference ==
    (AfterRun /\ obs.in_init) =>
        \A c \in Controls :
            IF port_ctl[c] # obs.in_prev[c]
            THEN /\ SelectSeq(ParamStep, LAMBDA k : k.b = CCOf(c))
                      = <<Call("param", "cc", 0, CCOf(c), MapCtl(c, port_ctl[c]))>>
                 /\ obs.pre_prev[c] = port_ctl[c]
            ELSE /\ NumUpdates(calls, "param", c) = 0
                 /\ obs.pre_prev[c] = obs.in_prev[c]

C18_Witness ==
    /\ AfterRun
    /\ obs.in_init
    /\ port_ctl[0] = 0
    /\ obs.in_prev[0] = CtlScale
    /\ ParamStep = <<Call("param", "cc", 0, CC_CUTOFF, CtlMax)>>
    /\ obs.pre_prev[0] = 0
    /\ obs.pre_prev[1] = obs.in_prev[1]

\* C19 as stated: for Note-On and Note-Off events the engine call carries the
\* channel encoded in the low nibble of the event's status byte.
C19_ChannelForwarded ==
    AfterRun =>
        \A ch \in 0..15 :
            /\ obs.events = <<MidiEv(<<144 + ch, 60, 100>>)>>
                  => MidiStep = <<Call("midi", "noteon", ch, 60, 100)>>
            /\ obs.events = <<MidiEv(<<128 + ch, 60, 0>>)>>
                  => MidiStep = <<Call("midi", "noteoff", ch, 60, 0)>>

\* C19 amended: for Note-On and Note-Off events, and for every other event
\* the dispatcher handles, the engine call carries channel 0 whatever the
\* low nibble of the status byte, together with the event's key (and its
\* velocity for a note-on).
C19_ChannelZero ==
    AfterRun =>
        /\ \A i \in 1..Len(MidiStep) : MidiStep[i].a = 0
        /\ \A ch \in 0..15 :
            /\ obs.events = <<MidiEv(<<144 + ch, 60, 100>>)>>
                  => MidiStep = <<Call("midi", "noteon", 0, 60, 100)>>
            /\ obs.events = <<MidiEv(<<128 + ch, 60, 0>>)>>
                  => MidiStep = <<Call("midi", "noteoff", 0, 60, 0)>>

C19_Witness ==
    /\ AfterRun
    /\ obs.events = <<MidiEv(<<147, 60, 100>>)>>
    /\ MidiStep = <<Call("midi", "noteon", 0, 60, 100)>>

\* The Pitch Bend records of evs that hold both data bytes.
IsPitchBend(ev) ==
    /\ ev.type = "midi"
    /\ Len(ev.bytes) = 3
    /\ StatusNibble(ev.bytes[1]) = 224
    /\ ev.bytes[2] \in 0..127
    /\ ev.bytes[3] \in 0..127

Forwarded(ev) == Call("midi", "pitch_bend", 0, (ev.bytes[3] * 128 + ev.bytes[2]) - 8192, 0)

\* C20: for every Pitch Bend event with data bytes lsb, msb in 0..127 the
\* dispatcher forwards (msb * 128 + lsb) - 8192: the centre (lsb 0, msb 64)
\* forwards 0 and the forwarded value lies in -8192..8191.
C20_PitchBendValue ==
    AfterRun =>
        LET bends == SelectSeq(obs.events, IsPitchBend)
            sent == SelectSeq(MidiStep, LAMBDA k : k.fn = "pitch_bend")
        IN /\ sent = [i \in 1..Len(bends) |-> Forwarded(bends[i])]
           /\ \A i \in 1..Len(sent) : sent[i].b \in -8192..8191
           /\ obs.events = <<MidiEv(<<224, 0, 64>>)>> => sent[1].b = 0
           /\ obs.events = <<MidiEv(<<224, 127, 127>>)>> => sent[1].b = 8191
           /\ obs.events = <<MidiEv(<<224, 0, 0>>)>> => sent[1].b = -8192
           /\ obs.events = <<MidiEv(<<227, 1, 0>>)>> => sent[1].b = -8191

C20_Witness ==
    /\ AfterRun
    /\ obs.events = <<MidiEv(<<224, 127, 127>>), MidiEv(<<224, 0, 64>>)>>
    /\ FnsOf(MidiStep) = <<"pitch_bend", "pitch_bend">>
    /\ MidiStep[1].b = 8191
    /\ MidiStep[2].b = 0

\* An event the dispatcher acts on.
Handled(ev, pad) ==
    /\ ev.type = "midi"
    /\ StatusNibble(Byte(ev, 0, pad)) \in {128, 144, 176, 224}

\* C21: an event whose status nibble is not 0x80, 0x90, 0xB0 or 0xE0, or
\* whose atom type is not the MIDI event type, is ignored: no engine call is
\* issued for it, and current_program and the parameter cache are as the
\* program-change step left them.
C21_OtherEventsIgnored ==
    AfterRun =>
        LET acted == SelectSeq(obs.events, LAMBDA ev : Handled(ev, obs.pad))
        IN /\ MidiStep = MidiCalls(acted, obs.pad)
           /\ acted = <<>> =>
                 /\ MidiStep = <<>>
                 /\ current_program = (IF obs.changed THEN obs.new_program
                                                      ELSE obs.pre_program)
                 /\ prev = (IF obs.changed THEN port_ctl ELSE obs.pre_prev)

C21_Witness ==
    /\ AfterRun
    /\ obs.events = <<MidiEv(<<192, 5>>), [type |-> "other", bytes |-> <<144, 60, 100>>]>>
    /\ MidiStep = <<>>
    /\ program_count = 2
    /\ eng.prog = programs[1].prog

\* C22: within one run call the engine calls for the recognized events are
\* issued in the order of the events, one per event, all before the first
\* render call; a block answers the events of that block only.
C22_EventsInOrder ==
    AfterRun =>
        LET acted == SelectSeq(obs.events, LAMBDA ev : Handled(ev, obs.pad))
        IN /\ Len(MidiStep) = Len(acted)
           /\ \A i \in 1..Len(acted) : <<MidiStep[i]>> = Dispatch(acted[i], obs.pad)
           /\ Precedes(calls, "midi", "render")
           /\ obs.events = <<>> => MidiStep = <<>>

C22_Witness ==
    /\ AfterRun
    /\ obs.events = <<MidiEv(<<144, 60, 100>>), MidiEv(<<128, 60, 64>>)>>
    /\ MidiStep = <<Call("midi", "noteon", 0, 60, 100), Call("midi", "noteoff", 0, 60, 0)>>
    /\ calls[Len(calls)].step = "render"

\* C23: when the engine reports failure for the program change of a valid
\* index i, current_program still becomes i, the parameter reset is still
\* performed, and the select is not sent again in later run calls while the
\* program port still rounds to i.
C23_FailureStillAdvances ==
    AfterRun =>
        /\ (ValidChange /\ obs.failed) =>
              /\ current_program = obs.new_program
              /\ Len(ProgramStep) = 11
              /\ SubSeq(ProgramStep, 6, 11) = ResetCCs("program")
              /\ preset_just_changed
              /\ \A c \in Controls : eng.cc[CCOf(c)] = 0
        /\ (obs.failed /\ obs.new_program = obs.pre_program) =>
              /\ ProgramStep = <<>>
              /\ current_program = obs.pre_program

C23_Witness ==
    /\ AfterRun
    /\ obs.failed
    /\ ~obs.changed
    /\ obs.new_program = 1
    /\ current_program = 1
    /\ ProgramStep = <<>>
    /\ eng.prog # programs[2].prog

\* C24: the scratch buffers, the preset table and the engine handle are
\* allocated in instantiate and released in cleanup, once each; connect_port,
\* activate, run and deactivate allocate and release nothing.
C24_AllocatedOnceFreedOnce ==
    /\ [](/\ phase = "none" => heap = {}
          /\ phase \in {"inst", "active", "fault"} => heap = Resources
          /\ phase = "cleaned" => heap = {})
    /\ [][heap' # heap =>
            \/ phase = "none" /\ phase' \in {"inst", "failed"}
            \/ phase = "inst" /\ phase' = "cleaned"]_vars

C24_Witness ==
    /\ phase = "cleaned"
    /\ heap = {}
    /\ nruns >= 1
    /\ program_count = 2

\* C25: when the requested program index is >= program_count the
\* program-change step issues no engine call at all.
C25_InvalidIndexNoCalls ==
    (AfterRun /\ obs.new_program >= program_count) => ProgramStep = <<>>

C25_Witness ==
    /\ AfterRun
    /\ obs.changed
    /\ program_count = 2
    /\ obs.new_program = 5
    /\ ProgramStep = <<>>

\* The program port value rounded to the nearest integer.
Nearest(pp) == (2 * pp + ProgScale) \div (2 * ProgScale)

\* C26: a program change is attempted exactly when the program port value
\* rounded to the nearest integer is >= 0 and differs from current_program;
\* otherwise no program-change engine call is issued and current_program is
\* unchanged.
C26_TriggerOnNearest ==
    AfterRun =>
        LET attempt == /\ Nearest(port_program) >= 0
                       /\ Nearest(port_program) # obs.pre_program
        IN /\ obs.changed <=> attempt
           /\ ~attempt => (ProgramStep = <<>> /\ current_program = obs.pre_program)

ControlOf(n) == CHOOSE c \in Controls : CCOf(c) = n

\* v scaled linearly onto 0..127 and truncated.
Linear(v) == TruncDiv(v * 127, CtlScale)

\* C27 as stated: for each of the six controls the value sent to the engine
\* for port value v is v * 127 truncated.
C27_AllLinear ==
    AfterRun =>
        \A i \in 1..Len(ParamStep) :
            ParamStep[i].c = Linear(port_ctl[ControlOf(ParamStep[i].b)])

\* C27 amended: the value sent for resonance, attack, decay, sustain and
\* release is v * 127 truncated (0.0 gives 0, 1.0 gives 127, non-decreasing
\* in v); the value sent for cutoff is (1 - v) * 127 truncated (0.0 gives
\* 127, 1.0 gives 0, non-increasing in v); both lie within 0..127.
C27_LinearButCutoffInverted ==
    /\ AfterRun =>
          \A i \in 1..Len(ParamStep) :
              LET c == ControlOf(ParamStep[i].b)
              IN /\ ParamStep[i].c = (IF c = 0 THEN Linear(CtlScale - port_ctl[c])
                                               ELSE Linear(port_ctl[c]))
                 /\ ParamStep[i].c \in 0..127
    /\ \A c \in Controls :
          /\ MapCtl(c, 0) = (IF c = 0 THEN 127 ELSE 0)
          /\ MapCtl(c, CtlScale) = (IF c = 0 THEN 0 ELSE 127)
          /\ \A v1, v2 \in MapVals :
                v1 <= v2 => IF c = 0 THEN MapCtl(c, v1) >= MapCtl(c, v2)
                                     ELSE MapCtl(c, v1) <= MapCtl(c, v2)

C27_Witness ==
    /\ AfterRun
    /\ port_ctl[0] = CtlScale - 1
    /\ ParamStep = <<Call("param", "cc", 0, CC_CUTOFF, Linear(1))>>

\* C28: the values handle_program_change sends on reset are the images of
\* the documented defaults under the mapping of the change detector: that of
\* a fully open cutoff for the cutoff, that of 0.0 for the other five.
C28_ResetIsMappedDefault ==
    ValidChange =>
        \A c \in Controls :
            SelectSeq(ProgramStep, LAMBDA k : k.fn = "cc" /\ k.b = CCOf(c))
                = <<Call("program", "cc", 0, CCOf(c), MapCtl(c, ResetValue(c)))>>

C28_Witness ==
    /\ ValidChange
    /\ ProgramStep[6] = Call("program", "cc", 0, CC_CUTOFF, MapCtl(0, CtlScale))
    /\ ProgramStep[11] = Call("program", "cc", 0, CC_RELEASE, MapCtl(5, 0))

\* C29 as stated: with the level port held at one value across consecutive
\* run calls the master-gain call is issued at most once over those calls.
C29_LevelChangeDetected ==
    (AfterRun /\ obs.held /\ obs.pre_level = port_level) => CallsOf("set_gain") = <<>>

\* C29 amended: the level is not cached: every run call issues the
\* master-gain call once, whether or not the level port has moved, and its
\* argument is the level port value unscaled.
C29_LevelEveryBlock ==
    AfterRun =>
        /\ CallsOf("set_gain") = <<Call("level", "set_gain", port_level, 0, 0)>>
        /\ eng.gain = port_level

C29_Witness ==
    /\ AfterRun
    /\ obs.held
    /\ obs.pre_level = 0
    /\ port_level = 0
    /\ CallsOf("set_gain") = <<Call("level", "set_gain", 0, 0, 0)>>

\* The places in calls of the fluid_synth_cc calls for controller n.
CCWrites(n) == {i \in 1..Len(calls) : calls[i].fn = "cc" /\ calls[i].b = n}

LastOf(S) == CHOOSE i \in S : \A j \in S : j <= i

IsFullCC(ev) ==
    /\ ev.type = "midi"
    /\ Len(ev.bytes) = 3
    /\ StatusNibble(ev.bytes[1]) = 176

C31_ChunksWithinCapacity ==
    AfterRun =>
        /\ \A k \in 1..Len(obs.chunks) : obs.chunks[k] \in 1..BUFFER_SIZE
        /\ Len(obs.chunks) = (obs.sample_count + BUFFER_SIZE - 1) \div BUFFER_SIZE
        /\ \A k \in 1..(Len(obs.chunks) - 1) : obs.chunks[k] = BUFFER_SIZE
        /\ \A k \in 1..Len(obs.tests) :
              obs.tests[k].offset + obs.tests[k].remaining = obs.sample_count
        /\ RenderCalls(obs.chunks) = SelectSeq(calls, LAMBDA c : c.step = "render")

C31_Witness ==
    /\ AfterRun
    /\ obs.sample_count = BUFFER_SIZE + 1
    /\ obs.chunks = <<BUFFER_SIZE, 1>>
    /\ obs.tests = <<LoopVars(BUFFER_SIZE + 1, 0), LoopVars(1, BUFFER_SIZE),
                     LoopVars(0, BUFFER_SIZE + 1)>>

\* C32: every run call terminates: for every sample_count (0 included, for
\* which no render call is made) and every finite event sequence the
\* remaining count of the render loop strictly decreases to 0 and run
\* returns, whatever the program port value.
C32_RunTerminates ==
    AfterRun =>
        /\ obs.tests # <<>>
        /\ obs.tests[1].remaining = obs.sample_count
        /\ obs.tests[Len(obs.tests)].remaining = 0
        /\ \A k \in 1..(Len(obs.tests) - 1) :
              /\ obs.tests[k].remaining > obs.tests[k + 1].remaining
              /\ obs.tests[k + 1].remaining >= 0
        /\ Len(obs.tests) <= obs.sample_count + 1
        /\ obs.sample_count = 0 =>
              \A i \in 1..Len(calls) : calls[i].step # "render"
        /\ Len(MidiStep) <= Len(obs.events)

C32_Witness ==
    /\ AfterRun
    /\ obs.sample_count = 2 * BUFFER_SIZE + 2
    /\ obs.new_program = 5
    /\ program_count = 2
    /\ Len(obs.events) = 2
    /\ Len(obs.tests) = 4
    /\ obs.tests[4].remaining = 0

\* C33: after a run call has applied a program change to a valid index i,
\* further run calls with the program port still rounding to i issue no
\* silence-all, bank select, program change or reset call from the
\* program-change step and leave current_program = i.
C33_AppliedOncePerChange ==
    (/\ AfterRun
     /\ ValidProgram(obs.pre_program, program_count)
     /\ obs.new_program = obs.pre_program) =>
        /\ ~obs.changed
        /\ ProgramStep = <<>>
        /\ \A i \in 1..Len(calls) :
              calls[i].fn \notin {"all_notes_off", "all_sounds_off", "bank_select",
                                  "sfont_select", "program_change"}
        /\ current_program = obs.pre_program
        /\ eng.bank = programs[current_program + 1].bank
        /\ eng.prog = programs[current_program + 1].prog

C33_Witness ==
    /\ AfterRun
    /\ nruns = 3
    /\ program_count = 2
    /\ obs.pre_program = 1
    /\ obs.new_program = 1
    /\ current_program = 1
    /\ ProgramStep = <<>>
    /\ eng.prog = 5

\* The steps between activation and deactivation of an instance.
Toggles ==
    \/ phase = "inst" /\ phase' = "active"
    \/ phase = "active" /\ phase' = "inst"

\* C35: activate and deactivate only command the engine to silence all notes
\* and sounds: they leave current_program, the preset table, program_count,
\* the parameter cache and the initialized flag unchanged, so that the run
\* call after a deactivate/activate cycle does not apply the selected program
\* again.
C35_TogglesOnlySilence ==
    /\ [][Toggles =>
            /\ FnsOf(calls') = <<"all_notes_off", "all_sounds_off">>
            /\ UNCHANGED <<current_program, programs, program_count, prev,
                           controls_initialized, controls_touched,
                           preset_just_changed>>
            /\ eng' = eng]_vars
    /\ []((/\ AfterRun
           /\ nruns >= 2
           /\ ~obs.held
           /\ obs.new_program = obs.pre_program) => ProgramStep = <<>>)

C35_Witness ==
    /\ AfterRun
    /\ nruns = 2
    /\ ~obs.held
    /\ program_count = 2
    /\ obs.pre_program = 0
    /\ current_program = 0
    /\ ProgramStep = <<>>

\* C34: in the plugin.c variant of run the preset table is subscripted only
\* with an index in 0..(number of stored presets - 1); a requested index at
\* or beyond the table length causes no table access and no engine select.
C34_SubscriptInRange ==
    obs.ran =>
        /\ obs.subs \subseteq 0..(Len(programs) - 1)
        /\ (~obs.fault /\ obs.new_program >= Len(programs)) =>
              /\ CallsOf("bank_select") = <<>>
              /\ CallsOf("program_change") = <<>>

====
